---- MODULE Spec2Model ----
(***************************************************************************)
(* Behavioural model of src/src/main.js: the portfolio page's bootstrap,   *)
(* content loader, navigation controller (click-to-scroll, scrollspy, hash *)
(* routing, mobile menu), chrome effects (debounced header and back-to-top *)
(* handlers), the view renderers with the icon resolver, and the fade-in   *)
(* animation trigger.                                                      *)
(*                                                                         *)
(* Strings that the code takes apart or concatenates (href, ids, CSS       *)
(* selectors, names, URLs) are sequences of chunks: the href "#about" is   *)
(* <<"#", "about">>, the id "about" is <<"about">>, the empty string is    *)
(* <<>>, the name "Ada Lovelace" is <<"Ada", " ", "Lovelace">>. A field a  *)
(* JSON object lacks is a field the record lacks.                          *)
(***************************************************************************)
EXTENDS Integers, Sequences, FiniteSets, TLC

VARIABLES
  pc,                \* position of init(): "idle", "fetch", "json", "ready", "failed"
  page,              \* which optional elements the document contains
  portfolioData,     \* state.portfolioData
  isLoading,         \* state.isLoading
  activeSection,     \* state.activeSection
  isMobileMenuOpen,  \* state.isMobileMenuOpen
  activeLinks,       \* nav links carrying the class 'active'
  menuHidden,        \* #nav-mobile carries the class 'hidden'
  ariaExpanded,      \* aria-expanded attribute of #mobile-menu-btn
  bubbling,          \* click event that still has to reach the document listener
  reducedMotion,     \* (prefers-reduced-motion: reduce) matches
  scrollY,           \* window.pageYOffset
  scrollEventPending,\* the position changed, its scroll event is not yet dispatched
  lastScroll,        \* the most recent window.scrollTo request
  bttTimer,          \* timeout of the back-to-top debounced handler is pending
  hdrTimer,          \* timeout of the header debounced handler is pending
  bttVisible,        \* #back-to-top carries the class 'visible'
  headerScrolled,    \* #header carries the class 'scrolled'
  hashTimer,         \* target of the pending initial-hash timeout, or NoTarget
  fadeTimer,         \* init's deferred animation setup timeout is pending
  fadeEls,           \* .fade-in elements attached to the document
  visible,           \* elements carrying the class 'visible'
  observed,          \* elements observed by the fade observer
  fadeObserver,      \* window.portfolioFadeObserver is set
  nextId,            \* next fresh element identity
  mounts             \* what the mount points of the renderers hold

vars == <<pc, page, portfolioData, isLoading, activeSection, isMobileMenuOpen,
          activeLinks, menuHidden, ariaExpanded, bubbling, reducedMotion,
          scrollY, scrollEventPending, lastScroll, bttTimer, hdrTimer,
          bttVisible, headerScrolled, hashTimer, fadeTimer, fadeEls, visible,
          observed, fadeObserver, nextId, mounts>>

navVars    == <<activeSection, activeLinks>>
menuVars   == <<isMobileMenuOpen, menuHidden, ariaExpanded>>
chromeVars == <<bttTimer, hdrTimer, bttVisible, headerScrolled>>
fadeVars   == <<fadeTimer, fadeEls, visible, observed, fadeObserver, nextId,
               mounts>>
loadVars   == <<pc, portfolioData, isLoading>>

----------------------------------------------------------------------------
(* Bounds of the model *)

\* longest batch of entries one scrollspy callback receives
MaxBatch == 2

\* largest element identity the renderers may hand out: it bounds how often
\* renderAllContent can be called again through window.portfolio
MaxElementId == 4

\* longest list of records in a content document passed to the renderers
MaxRecords == 2

\* most words in a project or certification name that combines keywords
MaxWords == 2

\* most chunks (words and whitespace characters) in a person's name
MaxNameLen == 3

----------------------------------------------------------------------------
(* CONFIG *)

HEADER_OFFSET == 80

SCROLL_THRESHOLD == 100

----------------------------------------------------------------------------
(* Content documents *)

Null == [kind |-> "null"]

\* the document returned by the catch branch of loadPortfolioData
FallbackDocument ==
  [kind |-> "object",
   about |-> [name |-> <<"Jubin", " ", "Raj", " ", "Nirmal">>,
              title |-> <<"Software Engineer & QA Developer">>,
              summary |-> <<"Detail-oriented software engineer with a Master's in Information Security, specializing in Quality Assurance and Testing.">>,
              location |-> <<"Canada">>,
              email |-> <<"contact@jubinrajnirmal.com">>,
              links |-> [github |-> <<"https://", "github.com/jubinrajnirmal">>,
                         linkedin |-> <<"https://", "linkedin.com/in/jubinrajnirmal">>]],
   experience |-> <<>>,
   education |-> <<>>,
   projects |-> <<>>,
   certifications |-> <<>>,
   hobbies |-> <<>>]

\* a document as src/data.json may hold it, with one job and one hobby
SampleDocument ==
  [kind |-> "object",
   about |-> [name |-> <<"Ada", " ", "Byron", " ", "Lovelace">>,
              title |-> <<"Engineer">>,
              summary |-> <<"Summary">>,
              location |-> <<"Canada">>,
              email |-> <<"ada@example.com">>,
              links |-> [github |-> <<"https://", "github.com/ada">>,
                         linkedin |-> <<"https://", "linkedin.com/in/ada">>]],
   experience |-> << [role |-> <<"QA">>, company |-> <<"Acme">>,
                      start |-> <<"2020">>, end |-> <<"2022">>,
                      highlights |-> << <<"h0">>, <<"h1">> >>,
                      stack |-> << <<"js">> >>] >>,
   education |-> <<>>,
   projects |-> <<>>,
   certifications |-> <<>>,
   hobbies |-> << <<"chess">> >>]

\* records as the lists of src/data.json hold them
Job1 == SampleDocument.experience[1]

Job2 ==
  [role |-> <<"Dev">>, company |-> <<"Initech">>, start |-> <<"2022">>,
   end |-> <<"Present">>, highlights |-> <<>>,
   stack |-> << <<"go">>, <<"sql">> >>]

Masters ==
  [degree |-> <<"Master", " of Science">>, field |-> <<"Security">>,
   school |-> <<"NCI">>, start |-> <<"2021">>, end |-> <<"2022">>,
   notes |-> << <<"Cryptography">>, <<"Forensics">> >>]

Bachelors ==
  [degree |-> <<"Bachelor", " of Technology">>, school |-> <<"KTU">>,
   start |-> <<"2015">>, end |-> <<"2019">>]

Project1 ==
  [name |-> <<"Test", " suite">>, description |-> <<"A suite">>,
   stack |-> << <<"js">>, <<"ci">> >>,
   links |-> [github |-> <<"https://", "github.com/ada/suite">>]]

Project2 ==
  [name |-> <<"Random", " tool">>, description |-> <<"A tool">>,
   stack |-> <<>>,
   links |-> [demo |-> <<"https://", "tool.example.com">>]]

Certification1 ==
  [name |-> <<"Azure", " Fundamentals">>, issuer |-> <<"Microsoft">>,
   year |-> <<"2023">>]

Certification2 ==
  [name |-> <<"Networking">>, issuer |-> <<"Cisco">>, year |-> <<"2021">>]

\* a job without its highlights list
JobNoHighlights ==
  [role |-> <<"QA">>, company |-> <<"Acme">>, start |-> <<"2020">>,
   end |-> <<"2022">>, stack |-> << <<"js">> >>]

\* about objects: without links, without email, and with a URL that holds
\* 'https://' behind another scheme
AboutNoLinks ==
  [name |-> <<"Ada", " ", "Lovelace">>, title |-> <<"Engineer">>,
   summary |-> <<"Summary">>, email |-> <<"ada@example.com">>]

AboutNoEmail ==
  [name |-> <<"Ada", " ", "Lovelace">>,
   links |-> [github |-> <<"https://", "github.com/ada">>,
              linkedin |-> <<"https://", "linkedin.com/in/ada">>]]

AboutRedirect ==
  [name |-> <<"Ada", " ", "Lovelace">>, title |-> <<"Engineer">>,
   summary |-> <<"Summary">>, email |-> <<"ada@example.com">>,
   links |-> [github |-> <<"http://", "go.example.com/?to=", "https://",
                           "github.com/ada">>,
              linkedin |-> <<"https://", "linkedin.com/in/ada">>]]

\* a document with every list empty
BaseDocument ==
  [kind |-> "object", about |-> SampleDocument.about, experience |-> <<>>,
   education |-> <<>>, projects |-> <<>>, certifications |-> <<>>,
   hobbies |-> <<>>]

\* the lists of at most MaxRecords records drawn from a set
ListsOf(S) == UNION {[1..n -> S] : n \in 0..MaxRecords}

\* valid documents: every record has the fields of its kind, optional ones
\* (field, notes, the two project links, email) may be missing
ValidDocuments ==
  {[BaseDocument EXCEPT !.experience = x] : x \in ListsOf({Job1, Job2})}
  \cup {[BaseDocument EXCEPT !.education = x] :
           x \in ListsOf({Masters, Bachelors})}
  \cup {[BaseDocument EXCEPT !.projects = x] :
           x \in ListsOf({Project1, Project2})}
  \cup {[BaseDocument EXCEPT !.certifications = x] :
           x \in ListsOf({Certification1, Certification2})}
  \cup {[BaseDocument EXCEPT !.hobbies = x] :
           x \in ListsOf({<<"chess">>, <<"hiking">>})}
  \cup {[BaseDocument EXCEPT !.about = a] : a \in {AboutNoEmail, AboutRedirect}}
  \cup {[BaseDocument EXCEPT !.experience = <<Job1>>,
                             !.education = <<Bachelors>>,
                             !.hobbies = << <<"chess">> >>]}

\* documents with a field missing that a renderer reads without a check
MalformedDocuments ==
  { [BaseDocument EXCEPT !.experience = <<JobNoHighlights>>,
                         !.education = <<Masters>>],
    [BaseDocument EXCEPT !.experience = <<Job1, JobNoHighlights>>,
                         !.hobbies = << <<"chess">> >>],
    [BaseDocument EXCEPT !.about = AboutNoLinks],
    [kind |-> "object", about |-> SampleDocument.about,
     experience |-> <<Job1>>, education |-> <<>>, projects |-> <<>>,
     certifications |-> <<>>] }

\* words of project names: every keyword of getProjectIcon, some with
\* capitals, and a word that is no keyword; ProjectLeads has one of each rule
ProjectWords ==
  {"Test", "automation", "infrastructure", "TERRAFORM", "Docker", "security",
   "SOC", "compliance", "Random"}

ProjectLeads == {"Test", "TERRAFORM", "SOC", "Random"}

\* words of certification names, likewise; "cyber" before "security" spells
\* cybersecurity
CertificationWords ==
  {"Security", "cyber", "Azure", "cloud", "ISC2", "fortinet", "SQL",
   "database", "Deploy", "configure", "Other"}

CertificationLeads == {"Security", "Azure", "ISC2", "SQL", "Deploy", "Other"}

\* names of one word, and of up to MaxWords words that mix the rules
IconNames(words, leads) ==
  {<<w>> : w \in words} \cup UNION {[1..n -> leads] : n \in 2..MaxWords}

\* documents with one project, or one certification, of each name
IconDocuments ==
  {[BaseDocument EXCEPT !.projects = <<[Project1 EXCEPT !.name = n]>>] :
      n \in IconNames(ProjectWords, ProjectLeads)}
  \cup {[BaseDocument EXCEPT
           !.certifications = <<[Certification1 EXCEPT !.name = n]>>] :
      n \in IconNames(CertificationWords, CertificationLeads) \cup
             {<<"cyber", "security">>}}

\* what a name is made of: words, the space and the tab
NameChunks == {"Ada", "Lovelace", " ", "\t"}

Names == UNION {[1..n -> NameChunks] : n \in 1..MaxNameLen}

\* documents that differ in about.name only
HeroDocuments == {[BaseDocument EXCEPT !.about.name = n] : n \in Names}

\* documents handed to the renderers
RenderDocuments == ValidDocuments \cup MalformedDocuments

\* what response.json() can resolve with: the JSON text "null" parses too
FetchedDocuments == {SampleDocument, Null}

\* every way the fetch of src/data.json can end
LoadOutcomes ==
  {[kind |-> "network_error"], [kind |-> "not_ok"], [kind |-> "parse_error"]}
  \cup {[kind |-> "ok", doc |-> d] : d \in FetchedDocuments}

Resolved(v) == [status |-> "resolved", value |-> v]
Rejected    == [status |-> "rejected", value |-> Null]

loadPortfolioData_rethrow(outcome) ==
  CASE outcome.kind = "ok"          -> Resolved(outcome.doc)
    [] outcome.kind = "parse_error" -> Rejected
    [] OTHER                        -> Resolved(FallbackDocument)

\* async loadPortfolioData(): the settled promise for a given fetch outcome
loadPortfolioData(outcome) ==
  IF outcome.kind = "ok"
    THEN Resolved(outcome.doc)
    ELSE Resolved(FallbackDocument)

----------------------------------------------------------------------------
(* The document the script runs against *)

\* section elements carrying an id: what initScrollspy observes
Sections == {<<"about">>, <<"experience">>, <<"contact">>}

\* ids of the elements of the document; #header exists when the page has one
ElementIds(pg) == Sections \cup (IF pg.header THEN {<<"header">>} ELSE {})

\* the .nav-link (desktop) and .nav-link-mobile (inside #nav-mobile) anchors
DesktopLinks == {"d_about", "d_experience", "d_header", "d_bare", "d_missing"}
MobileLinks  == {"m_about", "m_experience"}

NavLinks(pg) == DesktopLinks \cup (IF pg.mobileMenu THEN MobileLinks ELSE {})

\* link.getAttribute('href')
Href(l) ==
  CASE l \in {"d_about", "m_about"}           -> <<"#", "about">>
    [] l \in {"d_experience", "m_experience"} -> <<"#", "experience">>
    [] l = "d_header"                         -> <<"#", "header">>
    [] l = "d_bare"                           -> <<"#">>
    [] l = "d_missing"                        -> <<"#", "missing">>

\* element.offsetTop of the element with the given id
OffsetTop(id) ==
  CASE id = <<"about">>      -> 0
    [] id = <<"experience">> -> 180
    [] id = <<"contact">>    -> 500
    [] OTHER                 -> 0

\* scroll positions the viewport can take
ScrollPositions == {0, 100, 420}

\* the page variants: which optional elements the markup holds
PageVariants ==
  { [menuBtn |-> TRUE,  mobileMenu |-> TRUE,  header |-> TRUE,  backToTop |-> TRUE],
    [menuBtn |-> FALSE, mobileMenu |-> TRUE,  header |-> TRUE,  backToTop |-> FALSE],
    [menuBtn |-> TRUE,  mobileMenu |-> FALSE, header |-> FALSE, backToTop |-> TRUE] }

\* fragments the URL can carry: none, an existing section, no element
LocationHashes == {<<>>, <<"#", "experience">>, <<"#", "missing">>}

NoTarget == <<"(none)">>

----------------------------------------------------------------------------
(* Utility functions *)

\* String.prototype.substring(1)
Substring1(s) == IF Len(s) = 0 THEN s ELSE Tail(s)

\* the template literal `#${id}`
HashOf(id) == <<"#">> \o id

\* safeQuerySelector(`#${targetId}`) /= null: an empty id makes the selector
\* "#" invalid, querySelector throws and the catch returns null
QueryById(pg, targetId) ==
  targetId # <<>> /\ targetId \in ElementIds(pg)

prefersReducedMotion == reducedMotion

Behavior_smooth == "smooth"

\* behavior: prefersReducedMotion() ? 'auto' : 'smooth'
Behavior == IF prefersReducedMotion THEN "auto" ELSE "smooth"

NoScroll == [top |-> 0, behavior |-> "none", by |-> "none"]

\* the browser clamps a requested position to the scrollable range
Clamp(top) == IF top < 0 THEN 0 ELSE top

\* window.scrollTo({top, behavior}): an instant scroll moves the viewport
\* within the call and its scroll event is dispatched later; a smooth one
\* moves it over later frames (the Scroll action); `by` is the caller
ScrollTo(top, by) ==
  /\ lastScroll' = [top |-> top, behavior |-> Behavior, by |-> by]
  /\ IF Behavior = "auto" /\ Clamp(top) # scrollY
       THEN scrollY' = Clamp(top) /\ scrollEventPending' = TRUE
       ELSE UNCHANGED <<scrollY, scrollEventPending>>

----------------------------------------------------------------------------
(* Navigation *)

NoEvent == "none"

\* no click is half-way through its dispatch: handlers run to completion
Idle == bubbling = NoEvent

\* the listeners of initMobileMenu exist: init ran and found both elements
MenuWired == pc = "ready" /\ page.menuBtn /\ page.mobileMenu

updateActiveNavLink_addonly(prev, pg, activeId) ==
  prev \cup {l \in NavLinks(pg) : Href(l) = HashOf(activeId)}

\* updateActiveNavLink(activeId): the links carrying 'active' afterwards
updateActiveNavLink(prev, pg, activeId) ==
  (prev \cup {l \in NavLinks(pg) : Href(l) = HashOf(activeId)})
     \ {l \in NavLinks(pg) : Href(l) # HashOf(activeId)}

openMobileMenu ==
  IF page.mobileMenu
    THEN /\ menuHidden' = FALSE
         /\ isMobileMenuOpen' = TRUE
         /\ ariaExpanded' = IF page.menuBtn THEN "true" ELSE ariaExpanded
    ELSE UNCHANGED menuVars

closeMobileMenu ==
  IF page.mobileMenu
    THEN /\ menuHidden' = TRUE
         /\ isMobileMenuOpen' = FALSE
         /\ ariaExpanded' = IF page.menuBtn THEN "false" ELSE ariaExpanded
    ELSE UNCHANGED menuVars

toggleMobileMenu ==
  IF ~page.mobileMenu
    THEN UNCHANGED menuVars
    ELSE IF isMobileMenuOpen THEN closeMobileMenu ELSE openMobileMenu

\* where a click that bubbles up to the document came from
Bubble(where) == bubbling' = IF MenuWired THEN where ELSE NoEvent

NavLinkHandler_keepsmenu(l) ==
  LET targetId == Substring1(Href(l)) IN
    IF QueryById(page, targetId)
      THEN /\ ScrollTo(OffsetTop(targetId) - HEADER_OFFSET, "click")
           /\ UNCHANGED menuVars
           /\ activeSection' = targetId
           /\ activeLinks' = updateActiveNavLink(activeLinks, page, targetId)
      ELSE UNCHANGED <<scrollY, scrollEventPending, lastScroll, menuVars, navVars>>

\* the click listener initSmoothScrolling puts on every nav link
NavLinkHandler(l) ==
  LET targetId == Substring1(Href(l)) IN
    IF QueryById(page, targetId)
      THEN /\ ScrollTo(OffsetTop(targetId) - HEADER_OFFSET, "click")
           /\ IF isMobileMenuOpen THEN closeMobileMenu ELSE UNCHANGED menuVars
           /\ activeSection' = targetId
           /\ activeLinks' = updateActiveNavLink(activeLinks, page, targetId)
      ELSE UNCHANGED <<scrollY, scrollEventPending, lastScroll, menuVars, navVars>>

\* a click on a nav link: its own listener runs, then the event bubbles
NavClick(l) ==
  /\ Idle /\ pc = "ready"
  /\ l \in NavLinks(page)
  /\ NavLinkHandler(l)
  /\ Bubble(IF l \in MobileLinks THEN "menu" ELSE "outside")
  /\ UNCHANGED <<loadVars, page, reducedMotion, chromeVars, hashTimer, fadeVars>>

\* the entries an IntersectionObserver hands to the scrollspy callback
Entries == [target : Sections, isIntersecting : BOOLEAN]

Batches == UNION {[1..n -> Entries] : n \in 1..MaxBatch}

RECURSIVE ScrollspyCallback_first(_, _)
ScrollspyCallback_first(entries, st) ==
  IF entries = <<>> THEN st
  ELSE IF Head(entries).isIntersecting
    THEN [activeSection |-> Head(entries).target,
          activeLinks |-> updateActiveNavLink(st.activeLinks, page,
                                              Head(entries).target)]
    ELSE ScrollspyCallback_first(Tail(entries), st)

\* entries.forEach(entry => { if (entry.isIntersecting) ... }) of initScrollspy
RECURSIVE ScrollspyCallback(_, _)
ScrollspyCallback(entries, st) ==
  IF entries = <<>> THEN st
  ELSE LET entry == Head(entries)
           sectionId == entry.target
           next == IF entry.isIntersecting
                     THEN [activeSection |-> sectionId,
                           activeLinks |-> updateActiveNavLink(st.activeLinks,
                                                               page, sectionId)]
                     ELSE st
       IN ScrollspyCallback(Tail(entries), next)

\* the scrollspy observer reports a batch of entries
ScrollspyBatch(batch) ==
  /\ Idle /\ pc = "ready"
  /\ LET st == ScrollspyCallback(batch, [activeSection |-> activeSection,
                                         activeLinks |-> activeLinks])
     IN /\ activeSection' = st.activeSection
        /\ activeLinks' = st.activeLinks
  /\ UNCHANGED <<loadVars, page, menuVars, bubbling, reducedMotion, scrollY,
                 scrollEventPending, lastScroll, chromeVars, hashTimer, fadeVars>>

\* a click on #mobile-menu-btn
MenuButtonClick ==
  /\ Idle /\ MenuWired
  /\ toggleMobileMenu
  /\ Bubble("button")
  /\ UNCHANGED <<loadVars, page, navVars, reducedMotion, scrollY,
                 scrollEventPending, lastScroll, chromeVars, hashTimer, fadeVars>>

DocumentClickListener_always(where) ==
  IF isMobileMenuOpen THEN closeMobileMenu ELSE UNCHANGED menuVars

\* document click listener of initMobileMenu; `where` locates e.target
DocumentClickListener(where) ==
  IF isMobileMenuOpen /\ where # "menu" /\ where # "button"
    THEN closeMobileMenu
    ELSE UNCHANGED menuVars

\* the click reaches the document: second half of a dispatch
DocumentClick ==
  /\ bubbling # NoEvent
  /\ DocumentClickListener(bubbling)
  /\ bubbling' = NoEvent
  /\ UNCHANGED <<loadVars, page, navVars, reducedMotion, scrollY,
                 scrollEventPending, lastScroll, chromeVars, hashTimer, fadeVars>>

\* a click on an element outside the menu and the button that has no
\* listener of its own (the page body, the download and email buttons)
OutsideClick ==
  /\ Idle /\ MenuWired
  /\ DocumentClickListener("outside")
  /\ UNCHANGED <<loadVars, page, navVars, bubbling, reducedMotion, scrollY,
                 scrollEventPending, lastScroll, chromeVars, hashTimer, fadeVars>>

\* keydown listener of initMobileMenu, for e.key === 'Escape'
EscapeKey ==
  /\ Idle /\ MenuWired
  /\ IF isMobileMenuOpen THEN closeMobileMenu ELSE UNCHANGED menuVars
  /\ UNCHANGED <<loadVars, page, navVars, bubbling, reducedMotion, scrollY,
                 scrollEventPending, lastScroll, chromeVars, hashTimer, fadeVars>>

----------------------------------------------------------------------------
(* Hash routing and buttons *)

HashScroll_setsactive(hash) ==
  LET targetId == Substring1(hash) IN
    IF hash # <<>> /\ QueryById(page, targetId)
      THEN /\ ScrollTo(OffsetTop(targetId) - HEADER_OFFSET, "hashchange")
           /\ activeSection' = targetId
           /\ activeLinks' = updateActiveNavLink(activeLinks, page, targetId)
      ELSE UNCHANGED <<scrollY, scrollEventPending, lastScroll, navVars>>

\* the hashchange listener of initHashRouting, window.location.hash = hash
HashScroll(hash) ==
  LET targetId == Substring1(hash) IN
    IF hash # <<>> /\ QueryById(page, targetId)
      THEN /\ ScrollTo(OffsetTop(targetId) - HEADER_OFFSET, "hashchange")
           /\ UNCHANGED navVars
      ELSE UNCHANGED <<scrollY, scrollEventPending, lastScroll, navVars>>

HashChange(hash) ==
  /\ Idle /\ pc = "ready"
  /\ HashScroll(hash)
  /\ UNCHANGED <<loadVars, page, menuVars, bubbling, reducedMotion, chromeVars,
                 hashTimer, fadeVars>>

InitialHashTarget_always(pg, hash) == Substring1(hash)

\* the timeout target initHashRouting sets up for the fragment of the URL
InitialHashTarget(pg, hash) ==
  LET targetId == Substring1(hash) IN
    IF hash # <<>> /\ QueryById(pg, targetId) THEN targetId ELSE NoTarget

\* the 100 ms timeout of initHashRouting fires
HashTimerFire ==
  /\ Idle /\ hashTimer # NoTarget
  /\ ScrollTo(OffsetTop(hashTimer) - HEADER_OFFSET, "initial-hash")
  /\ hashTimer' = NoTarget
  /\ UNCHANGED <<loadVars, page, navVars, menuVars, bubbling, reducedMotion,
                 chromeVars, fadeVars>>

\* click listener of #back-to-top
BackToTopClick ==
  /\ Idle /\ pc = "ready" /\ page.backToTop
  /\ ScrollTo(0, "back-to-top")
  /\ Bubble("outside")
  /\ UNCHANGED <<loadVars, page, navVars, menuVars, reducedMotion, chromeVars,
                 hashTimer, fadeVars>>

\* handleContactClick, on the contact button
ContactClick ==
  /\ Idle /\ pc = "ready"
  /\ IF QueryById(page, <<"contact">>)
       THEN ScrollTo(OffsetTop(<<"contact">>) - HEADER_OFFSET, "contact")
       ELSE UNCHANGED <<scrollY, scrollEventPending, lastScroll>>
  /\ Bubble("outside")
  /\ UNCHANGED <<loadVars, page, navVars, menuVars, reducedMotion, chromeVars,
                 hashTimer, fadeVars>>

\* the user changes the reduced-motion setting of the system
PreferenceChange ==
  /\ Idle
  /\ reducedMotion' = ~reducedMotion
  /\ UNCHANGED <<loadVars, page, navVars, menuVars, bubbling, scrollY,
                 scrollEventPending, lastScroll, chromeVars, hashTimer, fadeVars>>

----------------------------------------------------------------------------
(* Chrome effects: the two debounced scroll handlers *)

\* the scroll listeners of initBackToTop and initHeaderEffects run: each
\* debounced function clears its timeout and sets it again
ScrollListeners ==
  IF pc = "ready"
    THEN /\ bttTimer' = page.backToTop
         /\ hdrTimer' = page.header
    ELSE UNCHANGED <<bttTimer, hdrTimer>>

PastThreshold_inclusive(scrollTop) == scrollTop >= SCROLL_THRESHOLD

\* scrollTop > CONFIG.SCROLL_THRESHOLD
PastThreshold(scrollTop) == scrollTop > SCROLL_THRESHOLD

\* the viewport moves (user input or a frame of a smooth scroll) and the
\* scroll event of that frame is dispatched
Scroll(p) ==
  /\ Idle /\ p # scrollY
  /\ scrollY' = p
  /\ scrollEventPending' = FALSE
  /\ ScrollListeners
  /\ UNCHANGED <<loadVars, page, navVars, menuVars, bubbling, reducedMotion,
                 lastScroll, bttVisible, headerScrolled, hashTimer, fadeVars>>

\* the scroll event of an instant window.scrollTo is dispatched
ScrollEventDispatch ==
  /\ Idle /\ scrollEventPending
  /\ scrollEventPending' = FALSE
  /\ ScrollListeners
  /\ UNCHANGED <<loadVars, page, navVars, menuVars, bubbling, reducedMotion,
                 scrollY, lastScroll, bttVisible, headerScrolled, hashTimer,
                 fadeVars>>

\* `later` of the back-to-top debounce runs
BackToTopTimerFire ==
  /\ Idle /\ bttTimer
  /\ bttTimer' = FALSE
  /\ bttVisible' = PastThreshold(scrollY)
  /\ UNCHANGED <<loadVars, page, navVars, menuVars, bubbling, reducedMotion,
                 scrollY, scrollEventPending, lastScroll, hdrTimer,
                 headerScrolled, hashTimer, fadeVars>>

\* `later` of the header debounce runs; it was set after the back-to-top
\* one with the same delay, so it runs after it
HeaderTimerFire ==
  /\ Idle /\ hdrTimer /\ ~bttTimer
  /\ hdrTimer' = FALSE
  /\ headerScrolled' = PastThreshold(scrollY)
  /\ UNCHANGED <<loadVars, page, navVars, menuVars, bubbling, reducedMotion,
                 scrollY, scrollEventPending, lastScroll, bttTimer, bttVisible,
                 hashTimer, fadeVars>>

----------------------------------------------------------------------------
(* Text *)

Min(S) == CHOOSE x \in S : \A y \in S : x <= y

\* obj.field is not undefined
Has(obj, field) == field \in DOMAIN obj

\* the value of an expression such as data.about, which may be undefined
Field(obj, field) ==
  IF field \in DOMAIN obj
    THEN [defined |-> TRUE, value |-> obj[field]]
    ELSE [defined |-> FALSE]

\* `${obj.field}` inside a template literal: undefined prints as a word
Interpolate(obj, field) ==
  IF Has(obj, field) THEN obj[field] ELSE <<"undefined">>

\* element.textContent = obj.field: undefined gives the empty string
TextContent(obj, field) == IF Has(obj, field) THEN obj[field] ELSE <<>>

\* lower case of the chunks that carry capitals
LowerChunk(c) ==
  CASE c = "Test"      -> "test"
    [] c = "TERRAFORM" -> "terraform"
    [] c = "Docker"    -> "docker"
    [] c = "SOC"       -> "soc"
    [] c = "Security"  -> "security"
    [] c = "Azure"     -> "azure"
    [] c = "ISC2"      -> "isc2"
    [] c = "SQL"       -> "sql"
    [] c = "Deploy"    -> "deploy"
    [] c = "Master"    -> "master"
    [] c = "MASTER"    -> "master"
    [] c = "Bachelor"  -> "bachelor"
    [] c = "Email"     -> "email"
    [] c = "LinkedIn"  -> "linkedin"
    [] c = "GitHub"    -> "github"
    [] OTHER           -> c

\* String.prototype.toLowerCase()
toLowerCase(s) == [i \in 1..Len(s) |-> LowerChunk(s[i])]

\* String.prototype.includes(keyword)
includes(s, keyword) ==
  \E i \in 0..(Len(s) - Len(keyword)) :
     SubSeq(s, i + 1, i + Len(keyword)) = keyword

\* String.prototype.split(' '): the pieces between single ' ' characters
RECURSIVE split(_)
split(s) ==
  IF s = <<>> THEN << <<>> >>
  ELSE LET rest == split(Tail(s)) IN
         IF Head(s) = " "
           THEN << <<>> >> \o rest
           ELSE << <<Head(s)>> \o Head(rest) >> \o Tail(rest)

\* Array.prototype.join(' ')
RECURSIVE join(_)
join(parts) ==
  IF parts = <<>> THEN <<>>
  ELSE IF Len(parts) = 1 THEN parts[1]
  ELSE parts[1] \o <<" ">> \o join(Tail(parts))

\* String.prototype.replace(pattern, ''): the first occurrence goes
RECURSIVE replace(_, _)
replace(s, pattern) ==
  IF s = <<>> THEN <<>>
  ELSE IF Head(s) = pattern THEN Tail(s)
  ELSE <<Head(s)>> \o replace(Tail(s), pattern)

----------------------------------------------------------------------------
(* Icon helpers *)

\* iconMap of getProjectIcon: each key stands for its SVG path
ProjectIconMap ==
  [test |-> "path:check-circle", infrastructure |-> "path:server",
   security |-> "path:shield", default |-> "path:code"]

\* iconMap of getCertificationIcon: 'security' and 'default' hold the same
\* SVG path
CertificationIconMap ==
  [security |-> "path:shield", cloud |-> "path:cloud", lock |-> "path:lock",
   database |-> "path:database", server |-> "path:server",
   default |-> "path:shield"]

getProjectIcon_secondrule(projectName) ==
  LET lowerName == toLowerCase(projectName) IN
    IF includes(lowerName, <<"infrastructure">>)
         \/ includes(lowerName, <<"terraform">>)
         \/ includes(lowerName, <<"docker">>)
      THEN ProjectIconMap.infrastructure
    ELSE IF includes(lowerName, <<"test">>)
         \/ includes(lowerName, <<"automation">>)
      THEN ProjectIconMap.test
    ELSE IF includes(lowerName, <<"security">>)
         \/ includes(lowerName, <<"soc">>)
         \/ includes(lowerName, <<"compliance">>)
      THEN ProjectIconMap.security
    ELSE ProjectIconMap.default

getProjectIcon(projectName) ==
  LET lowerName == toLowerCase(projectName) IN
    IF includes(lowerName, <<"test">>)
         \/ includes(lowerName, <<"automation">>)
      THEN ProjectIconMap.test
    ELSE IF includes(lowerName, <<"infrastructure">>)
         \/ includes(lowerName, <<"terraform">>)
         \/ includes(lowerName, <<"docker">>)
      THEN ProjectIconMap.infrastructure
    ELSE IF includes(lowerName, <<"security">>)
         \/ includes(lowerName, <<"soc">>)
         \/ includes(lowerName, <<"compliance">>)
      THEN ProjectIconMap.security
    ELSE ProjectIconMap.default

getCertificationIcon(certName) ==
  LET lowerName == toLowerCase(certName) IN
    IF includes(lowerName, <<"security">>)
         \/ includes(lowerName, <<"cyber", "security">>)
      THEN CertificationIconMap.security
    ELSE IF includes(lowerName, <<"azure">>)
         \/ includes(lowerName, <<"cloud">>)
      THEN CertificationIconMap.cloud
    ELSE IF includes(lowerName, <<"isc2">>)
         \/ includes(lowerName, <<"fortinet">>)
      THEN CertificationIconMap.lock
    ELSE IF includes(lowerName, <<"sql">>)
         \/ includes(lowerName, <<"database">>)
      THEN CertificationIconMap.database
    ELSE IF includes(lowerName, <<"deploy">>)
         \/ includes(lowerName, <<"configure">>)
      THEN CertificationIconMap.server
    ELSE CertificationIconMap.default

----------------------------------------------------------------------------
(* View renderers *)

\* data-testid="field-index" and data-testid="field-index-subindex"
TestId(field, index) == [field |-> field, index |-> index]

NestedTestId(field, index, i) == [field |-> field, index |-> index, sub |-> i]

\* the mount points as the markup has them before any renderer ran
EmptyMounts ==
  [hero |-> [name |-> <<>>, surname |-> <<>>, title |-> <<>>,
             summary |-> <<>>, footerName |-> <<>>],
   experience |-> <<>>, education |-> <<>>, projects |-> <<>>,
   certifications |-> <<>>, hobbies |-> <<>>, contact |-> <<>>]

\* renderHeroSection(aboutData): reading a property of undefined, and
\* undefined.split, throw before anything is written
renderHeroSection(prev, aboutData) ==
  IF ~aboutData.defined \/ ~Has(aboutData.value, "name")
    THEN [threw |-> TRUE, value |-> prev]
    ELSE LET nameParts == split(aboutData.value.name) IN
      [threw |-> FALSE,
       value |-> [name |-> join(SubSeq(nameParts, 1, Len(nameParts) - 1)),
                  surname |-> nameParts[Len(nameParts)],
                  title |-> TextContent(aboutData.value, "title"),
                  summary |-> TextContent(aboutData.value, "summary"),
                  footerName |-> aboutData.value.name]]

\* the timeline item of one job
ExperienceItem(job, index, el) ==
  LET isEven == index % 2 = 0
      dotClass == IF isEven THEN "primary" ELSE "secondary"
      badgeClass == IF isEven THEN "primary" ELSE "secondary"
  IN [el |-> el,
      variant |-> dotClass,
      title |-> [testid |-> TestId("text-role", index),
                 text |-> Interpolate(job, "role")],
      company |-> [testid |-> TestId("text-company", index),
                   text |-> Interpolate(job, "company")],
      period |-> [testid |-> TestId("text-period", index),
                  text |-> Interpolate(job, "start") \o <<" - ">>
                             \o Interpolate(job, "end")],
      nested |-> [i \in 1..Len(job.highlights) |->
                    [testid |-> NestedTestId("text-highlight", index, i - 1),
                     text |-> job.highlights[i]]],
      badges |-> [i \in 1..Len(job.stack) |->
                    [testid |-> NestedTestId("badge", index, i - 1),
                     class |-> badgeClass,
                     text |-> job.stack[i]]]]

\* how many records forEach gets through: all, or those before the first
\* one whose template throws
DoneBeforeThrow(records, bad) ==
  IF bad = {} THEN Len(records) ELSE Min(bad) - 1

renderExperience_append(prev, experienceData, firstEl) ==
  IF ~experienceData.defined
    THEN [threw |-> TRUE, items |-> prev]
    ELSE LET jobs == experienceData.value
             bad == {k \in 1..Len(jobs) :
                       ~Has(jobs[k], "highlights") \/ ~Has(jobs[k], "stack")}
         IN [threw |-> bad # {},
             items |-> prev \o [k \in 1..DoneBeforeThrow(jobs, bad) |->
                         ExperienceItem(jobs[k], k - 1, firstEl + k - 1)]]

\* renderExperience(experienceData): the mount point is cleared, then every
\* job appends its item; job.highlights.map and job.stack.map throw on
\* undefined, and so does undefined.forEach
renderExperience(prev, experienceData, firstEl) ==
  IF ~experienceData.defined
    THEN [threw |-> TRUE, items |-> <<>>]
    ELSE LET jobs == experienceData.value
             bad == {k \in 1..Len(jobs) :
                       ~Has(jobs[k], "highlights") \/ ~Has(jobs[k], "stack")}
         IN [threw |-> bad # {},
             items |-> [k \in 1..DoneBeforeThrow(jobs, bad) |->
                         ExperienceItem(jobs[k], k - 1, firstEl + k - 1)]]

\* the card of one degree; cardClass is computed from the degree name
EducationItem(edu, index, el) ==
  LET isMasters == includes(toLowerCase(edu.degree), <<"master">>)
      cardClass == IF isMasters THEN "primary" ELSE "secondary"
  IN [el |-> el,
      variant |-> cardClass,
      title |-> [testid |-> TestId("text-degree", index),
                 class |-> IF isMasters THEN "accent-text" ELSE "",
                 text |-> edu.degree],
      field |-> [testid |-> TestId("text-field", index),
                 text |-> TextContent(edu, "field")],
      school |-> [testid |-> TestId("text-school", index),
                  text |-> Interpolate(edu, "school")],
      nested |-> IF Has(edu, "notes")
                   THEN [i \in 1..Len(edu.notes) |->
                           [testid |-> NestedTestId("text-coursework", index,
                                                    i - 1),
                            text |-> edu.notes[i]]]
                   ELSE <<>>]

\* renderEducation(educationData): edu.degree.toLowerCase throws on undefined
renderEducation(prev, educationData, firstEl) ==
  IF ~educationData.defined
    THEN [threw |-> TRUE, items |-> <<>>]
    ELSE LET degrees == educationData.value
             bad == {k \in 1..Len(degrees) : ~Has(degrees[k], "degree")}
         IN [threw |-> bad # {},
             items |-> [k \in 1..DoneBeforeThrow(degrees, bad) |->
                         EducationItem(degrees[k], k - 1, firstEl + k - 1)]]

\* the card of one project
ProjectItem(project, index, el) ==
  LET iconClass == IF index % 2 = 0 THEN "primary" ELSE "secondary" IN
    [el |-> el,
     variant |-> iconClass,
     icon |-> getProjectIcon(project.name),
     title |-> [testid |-> TestId("text-project-title", index),
                text |-> project.name],
     description |-> [testid |-> TestId("text-project-description", index),
                      text |-> Interpolate(project, "description")],
     nested |-> [i \in 1..Len(project.stack) |->
                   [testid |-> NestedTestId("badge-project", index, i - 1),
                    class |-> iconClass,
                    text |-> project.stack[i]]],
     links |-> {f \in {"github", "demo"} : Has(project.links, f)}]

\* renderProjects(projectsData): getProjectIcon(undefined), undefined.map
\* and a property of undefined links throw
renderProjects(prev, projectsData, firstEl) ==
  IF ~projectsData.defined
    THEN [threw |-> TRUE, items |-> <<>>]
    ELSE LET projects == projectsData.value
             bad == {k \in 1..Len(projects) :
                       \/ ~Has(projects[k], "name")
                       \/ ~Has(projects[k], "stack")
                       \/ ~Has(projects[k], "links")}
         IN [threw |-> bad # {},
             items |-> [k \in 1..DoneBeforeThrow(projects, bad) |->
                         ProjectItem(projects[k], k - 1, firstEl + k - 1)]]

\* the card of one certification
CertificationItem(cert, index, el) ==
  LET iconClass == IF index % 2 = 0 THEN "primary" ELSE "secondary" IN
    [el |-> el,
     variant |-> iconClass,
     icon |-> getCertificationIcon(cert.name),
     title |-> [testid |-> TestId("text-cert-name", index),
                text |-> cert.name],
     issuer |-> [testid |-> TestId("text-cert-issuer", index),
                 text |-> Interpolate(cert, "issuer")],
     year |-> [testid |-> TestId("text-cert-year", index),
               class |-> IF iconClass = "primary" THEN "accent-text" ELSE "",
               text |-> Interpolate(cert, "year")],
     nested |-> <<>>]

\* renderCertifications(certificationsData): getCertificationIcon(undefined)
\* throws
renderCertifications(prev, certificationsData, firstEl) ==
  IF ~certificationsData.defined
    THEN [threw |-> TRUE, items |-> <<>>]
    ELSE LET certs == certificationsData.value
             bad == {k \in 1..Len(certs) : ~Has(certs[k], "name")}
         IN [threw |-> bad # {},
             items |-> [k \in 1..DoneBeforeThrow(certs, bad) |->
                         CertificationItem(certs[k], k - 1, firstEl + k - 1)]]

\* renderHobbies(hobbiesData): the mount point is cleared and one wrapper
\* holding an item per hobby is appended; undefined.forEach throws before
\* the wrapper is appended
renderHobbies(prev, hobbiesData, firstEl) ==
  IF ~hobbiesData.defined
    THEN [threw |-> TRUE, items |-> <<>>]
    ELSE LET hobbies == hobbiesData.value IN
      [threw |-> FALSE,
       items |-> << [el |-> firstEl,
                     nested |-> [i \in 1..Len(hobbies) |->
                                   [testid |-> TestId("text-hobby", i - 1),
                                    text |-> hobbies[i]]]] >>]

\* one entry of `methods`
ContactMethod(title, value, class) ==
  [title |-> title,
   testid |-> <<"text-contact", LowerChunk(title), "value">>,
   value |-> value,
   class |-> class]

\* renderContactMethods(contactData): the array `methods` is built first;
\* reading linkedin of undefined links, and undefined.replace, throw before
\* the mount point is written
renderContactMethods(prev, contactData) ==
  IF \/ ~contactData.defined
     \/ ~Has(contactData.value, "links")
     \/ ~Has(contactData.value.links, "linkedin")
     \/ ~Has(contactData.value.links, "github")
    THEN [threw |-> TRUE, items |-> prev]
    ELSE
      [threw |-> FALSE,
       items |-> << ContactMethod("Email",
                                  Interpolate(contactData.value, "email"),
                                  "primary"),
                    ContactMethod("LinkedIn",
                                  replace(contactData.value.links.linkedin,
                                          "https://"),
                                  "secondary"),
                    ContactMethod("GitHub",
                                  replace(contactData.value.links.github,
                                          "https://"),
                                  "primary") >>]

\* the fresh elements among the items of a mount point
Created(items, firstEl) ==
  Cardinality({k \in 1..Len(items) : items[k].el >= firstEl})

\* the body of renderAllContent(data): the renderers run in order inside one
\* try block, so a renderer that throws ends the pass and the mount points
\* of the renderers after it keep what they held
RenderPass(prev, data, firstEl) ==
  LET hero  == renderHeroSection(prev.hero, Field(data, "about"))
      exp   == renderExperience(prev.experience, Field(data, "experience"),
                                firstEl)
      el2   == firstEl + Created(exp.items, firstEl)
      edu   == renderEducation(prev.education, Field(data, "education"), el2)
      el3   == el2 + Created(edu.items, firstEl)
      proj  == renderProjects(prev.projects, Field(data, "projects"), el3)
      el4   == el3 + Created(proj.items, firstEl)
      cert  == renderCertifications(prev.certifications,
                                    Field(data, "certifications"), el4)
      el5   == el4 + Created(cert.items, firstEl)
      hob   == renderHobbies(prev.hobbies, Field(data, "hobbies"), el5)
      con   == renderContactMethods(prev.contact, Field(data, "about"))
      thrown1 == hero.threw
      thrown2 == thrown1 \/ exp.threw
      thrown3 == thrown2 \/ edu.threw
      thrown4 == thrown3 \/ proj.threw
      thrown5 == thrown4 \/ cert.threw
      thrown6 == thrown5 \/ hob.threw
  IN IF data.kind = "null" THEN prev
     ELSE [hero           |-> hero.value,
           experience     |-> IF thrown1 THEN prev.experience ELSE exp.items,
           education      |-> IF thrown2 THEN prev.education ELSE edu.items,
           projects       |-> IF thrown3 THEN prev.projects ELSE proj.items,
           certifications |-> IF thrown4 THEN prev.certifications
                                         ELSE cert.items,
           hobbies        |-> IF thrown5 THEN prev.hobbies ELSE hob.items,
           contact        |-> IF thrown6 THEN prev.contact ELSE con.items]

----------------------------------------------------------------------------
(* Rendering and fade-in animations *)

\* .fade-in elements of the markup itself
StaticFadeEls == {0}

\* the .fade-in elements the mount points hold: the items of the four card
\* lists and the hobbies wrapper
RenderedFadeEls(m) ==
  UNION { {m[f][k].el : k \in 1..Len(m[f])} :
            f \in {"experience", "education", "projects", "certifications",
                   "hobbies"} }

\* renderAllContent(data): the render pass, and what it does to the set of
\* .fade-in elements of the document
renderAllContent(data) ==
  LET m == RenderPass(mounts, data, nextId) IN
    /\ mounts' = m
    /\ fadeEls' = StaticFadeEls \cup RenderedFadeEls(m)
    /\ nextId' = nextId + Cardinality({e \in RenderedFadeEls(m) : e >= nextId})

\* documents a caller of window.portfolio.renderAllContent passes
RenderableDocuments == {FallbackDocument, SampleDocument, Null}

\* window.portfolio.renderAllContent(data), called from outside the script
ReRender(data) ==
  /\ Idle
  /\ \A e \in RenderedFadeEls(RenderPass(mounts, data, nextId)) :
        e <= MaxElementId
  /\ renderAllContent(data)
  /\ UNCHANGED <<loadVars, page, navVars, menuVars, bubbling, reducedMotion,
                 scrollY, scrollEventPending, lastScroll, chromeVars, hashTimer,
                 fadeTimer, visible, observed, fadeObserver>>

\* initFadeInAnimations() followed by the observe loop of init's timeout
initFadeInAnimations ==
  IF prefersReducedMotion
    THEN /\ visible' = visible \cup fadeEls
         /\ UNCHANGED <<observed, fadeObserver>>
    ELSE /\ fadeObserver' = TRUE
         /\ observed' = (observed \cup fadeEls)
                           \cup {e \in fadeEls : e \notin visible}
         /\ UNCHANGED visible

\* the 100 ms timeout of init fires; it was set after the one of
\* initHashRouting with the same delay, so it runs after it
DeferredSetup ==
  /\ Idle /\ fadeTimer /\ hashTimer = NoTarget
  /\ fadeTimer' = FALSE
  /\ initFadeInAnimations
  /\ UNCHANGED <<loadVars, page, navVars, menuVars, bubbling, reducedMotion,
                 scrollY, scrollEventPending, lastScroll, chromeVars, hashTimer,
                 fadeEls, nextId, mounts>>

FadeCallback_toggles(vis, intersecting, others) == (vis \cup intersecting) \ others

\* callback of the fade observer: 'visible' is added for intersecting entries
FadeCallback(vis, intersecting, others) == vis \cup intersecting

\* the fade observer reports entries: `intersecting` are attached observed
\* elements, `others` are reported as not intersecting
FadeBatch(intersecting, others) ==
  /\ Idle /\ fadeObserver
  /\ intersecting \subseteq (observed \cap fadeEls)
  /\ others \subseteq (observed \ intersecting)
  /\ intersecting \cup others # {}
  /\ visible' = FadeCallback(visible, intersecting, others)
  /\ UNCHANGED <<loadVars, page, navVars, menuVars, bubbling, reducedMotion,
                 scrollY, scrollEventPending, lastScroll, chromeVars, hashTimer,
                 fadeTimer, fadeEls, observed, fadeObserver, nextId, mounts>>

----------------------------------------------------------------------------
(* Bootstrap *)

\* init() after `await loadPortfolioData()`: a rejection goes to the catch
\* block, a value is stored, rendered and the handlers are wired
InitContinue(result, hash) ==
  IF result.status = "rejected"
    THEN /\ pc' = "failed"
         /\ UNCHANGED <<portfolioData, isLoading, hashTimer, fadeVars>>
    ELSE /\ pc' = "ready"
         /\ portfolioData' = result.value
         /\ isLoading' = FALSE
         /\ renderAllContent(result.value)
         /\ hashTimer' = InitialHashTarget(page, hash)
         /\ fadeTimer' = TRUE
         /\ UNCHANGED <<visible, observed, fadeObserver>>

\* DOMContentLoaded (or the script's own run): init() starts the fetch
InitStart ==
  /\ pc = "idle"
  /\ pc' = "fetch"
  /\ UNCHANGED <<page, portfolioData, isLoading, navVars, menuVars, bubbling,
                 reducedMotion, scrollY, scrollEventPending, lastScroll,
                 chromeVars, hashTimer, fadeVars>>

\* fetch() settles: a network error or a response that is not ok ends the
\* load, an ok response goes on to response.json()
FetchSettles(kind, hash) ==
  /\ pc = "fetch"
  /\ kind \in {"network_error", "not_ok", "ok"}
  /\ IF kind = "ok"
       THEN /\ pc' = "json"
            /\ UNCHANGED <<portfolioData, isLoading, hashTimer, fadeVars>>
       ELSE InitContinue(loadPortfolioData([kind |-> kind]), hash)
  /\ UNCHANGED <<page, navVars, menuVars, bubbling, reducedMotion, scrollY,
                 scrollEventPending, lastScroll, chromeVars>>

\* response.json() settles
JsonSettles(outcome, hash) ==
  /\ pc = "json"
  /\ outcome.kind \in {"parse_error", "ok"}
  /\ InitContinue(loadPortfolioData(outcome), hash)
  /\ UNCHANGED <<page, navVars, menuVars, bubbling, reducedMotion, scrollY,
                 scrollEventPending, lastScroll, chromeVars>>

----------------------------------------------------------------------------
(* Specification *)

Init ==
  /\ pc = "idle"
  /\ page \in PageVariants
  /\ portfolioData = Null
  /\ isLoading = TRUE
  /\ activeSection = <<"about">>
  /\ isMobileMenuOpen = FALSE
  /\ activeLinks \in {{}, {"d_about"}}
  /\ menuHidden = TRUE
  /\ ariaExpanded = "false"
  /\ bubbling = NoEvent
  /\ reducedMotion \in BOOLEAN
  /\ scrollY = 0
  /\ scrollEventPending = FALSE
  /\ lastScroll = NoScroll
  /\ bttTimer = FALSE
  /\ hdrTimer = FALSE
  /\ bttVisible = FALSE
  /\ headerScrolled = FALSE
  /\ hashTimer = NoTarget
  /\ fadeTimer = FALSE
  /\ fadeEls = StaticFadeEls
  /\ visible = {}
  /\ observed = {}
  /\ fadeObserver = FALSE
  /\ nextId = 1
  /\ mounts = EmptyMounts

\* init() from its start to the end of the wiring
Bootstrap ==
  \/ InitStart
  \/ \E k \in {"network_error", "not_ok", "ok"}, h \in LocationHashes :
        FetchSettles(k, h)
  \/ \E o \in LoadOutcomes, h \in LocationHashes : JsonSettles(o, h)

\* the page as a whole: every handler, timer and observer of main.js
Next ==
  \/ Bootstrap
  \/ \E l \in DesktopLinks \cup MobileLinks : NavClick(l)
  \/ \E b \in Batches : ScrollspyBatch(b)
  \/ MenuButtonClick
  \/ DocumentClick
  \/ OutsideClick
  \/ EscapeKey
  \/ \E h \in LocationHashes : HashChange(h)
  \/ HashTimerFire
  \/ BackToTopClick
  \/ ContactClick
  \/ PreferenceChange
  \/ \E p \in ScrollPositions : Scroll(p)
  \/ ScrollEventDispatch
  \/ BackToTopTimerFire
  \/ HeaderTimerFire
  \/ DeferredSetup
  \/ \E i \in SUBSET (observed \cap fadeEls) :
        \E o \in SUBSET (observed \ i) : FadeBatch(i, o)
  \/ \E d \in RenderableDocuments : ReRender(d)

Spec == Init /\ [][Next]_vars

\* the navigation controller: every event that reaches a handler of the
\* navigation state or of the menu, every scroll and the initial-hash timeout
NextNav ==
  \/ Bootstrap
  \/ \E l \in DesktopLinks \cup MobileLinks : NavClick(l)
  \/ \E b \in Batches : ScrollspyBatch(b)
  \/ MenuButtonClick
  \/ DocumentClick
  \/ OutsideClick
  \/ EscapeKey
  \/ \E h \in LocationHashes : HashChange(h)
  \/ HashTimerFire
  \/ BackToTopClick
  \/ ContactClick
  \/ \E p \in ScrollPositions : Scroll(p)
  \/ ScrollEventDispatch

SpecNav == Init /\ [][NextNav]_vars

\* motion: every programmatic scroll, the deferred animation setup and the
\* reduced-motion preference
NextMotion ==
  \/ Bootstrap
  \/ \E l \in DesktopLinks \cup MobileLinks : NavClick(l)
  \/ DocumentClick
  \/ \E h \in LocationHashes : HashChange(h)
  \/ HashTimerFire
  \/ BackToTopClick
  \/ ContactClick
  \/ PreferenceChange
  \/ DeferredSetup

SpecMotion == Init /\ [][NextMotion]_vars

\* the chrome effects: scrolls, instant programmatic scrolls and the
\* debounce timeouts
NextChrome ==
  \/ Bootstrap
  \/ \E p \in ScrollPositions : Scroll(p)
  \/ ScrollEventDispatch
  \/ BackToTopTimerFire
  \/ HeaderTimerFire
  \/ BackToTopClick
  \/ DocumentClick
  \/ HashTimerFire
  \/ PreferenceChange

SpecChrome == Init /\ [][NextChrome]_vars

\* content and animation: loading, rendering, the deferred setup and the
\* fade observer, with scrolls and clicks going on
NextFade ==
  \/ Bootstrap
  \/ HashTimerFire
  \/ DeferredSetup
  \/ \E i \in SUBSET (observed \cap fadeEls) :
        \E o \in SUBSET (observed \ i) : FadeBatch(i, o)
  \/ \E d \in RenderableDocuments : ReRender(d)
  \/ PreferenceChange
  \/ \E p \in ScrollPositions : Scroll(p)
  \/ MenuButtonClick
  \/ DocumentClick
  \/ OutsideClick

SpecFade == Init /\ [][NextFade]_vars

\* the bootstrap with the events that can arrive while it runs and the
\* timeouts it leaves behind
NextBoot ==
  \/ Bootstrap
  \/ \E p \in ScrollPositions : Scroll(p)
  \/ MenuButtonClick
  \/ DocumentClick
  \/ BackToTopClick
  \/ HashTimerFire
  \/ DeferredSetup
  \/ \E i \in SUBSET (observed \cap fadeEls) :
        \E o \in SUBSET (observed \ i) : FadeBatch(i, o)

\* the view renderers: the bootstrap's render pass and later calls of
\* window.portfolio.renderAllContent with any document
NextRender ==
  \/ Bootstrap
  \/ \E d \in RenderDocuments : ReRender(d)

\* the renderers read nothing of the navigation state: one page, with every
\* optional element, in normal motion
RenderInit ==
  /\ Init
  /\ page = [menuBtn |-> TRUE, mobileMenu |-> TRUE, header |-> TRUE,
             backToTop |-> TRUE]
  /\ ~reducedMotion
  /\ activeLinks = {}

SpecRender == RenderInit /\ [][NextRender]_vars

\* response.json() of a response that arrived settles: the body is there
\* the icon helpers, applied by the project and certification renderers
NextIcon == \E d \in IconDocuments : ReRender(d)

SpecIcon == RenderInit /\ [][NextIcon]_vars

\* the hero renderer, applied to every name
NextHero == \E d \in HeroDocuments : ReRender(d)

SpecHero == RenderInit /\ [][NextHero]_vars

SpecBoot ==
  /\ Init /\ [][NextBoot]_vars
  /\ WF_vars(\E o \in LoadOutcomes, h \in LocationHashes : JsonSettles(o, h))

----------------------------------------------------------------------------
(* Content loader *)

FetchFailures == {"network_error", "not_ok"}

\* C1: loadPortfolioData never rejects. Every failed outcome of the fetch (a
\* network error, a response that is not ok, a JSON parse failure) makes
\* init go on with the fixed fallback document, the same one each time, and
\* only an ok response with parseable JSON makes it go on with the fetched
\* document; init never reaches its catch block.
C1_LoaderNeverRejects ==
  [][ /\ pc' # "failed"
      /\ \A h \in LocationHashes :
           /\ \A k \in FetchFailures :
                FetchSettles(k, h)
                  => pc' = "ready" /\ portfolioData' = FallbackDocument
           /\ JsonSettles([kind |-> "parse_error"], h)
                => pc' = "ready" /\ portfolioData' = FallbackDocument
           /\ \A d \in FetchedDocuments :
                JsonSettles([kind |-> "ok", doc |-> d], h)
                  => pc' = "ready" /\ portfolioData' = d ]_vars

\* the load failed and init went on with the fallback document
C1_Witness ==
  pc = "ready" /\ ~isLoading /\ portfolioData = FallbackDocument

----------------------------------------------------------------------------
(* Navigation controller *)

\* the element a link's href names exists in the document
TargetExists(l) == Substring1(Href(l)) \in ElementIds(page)

\* C2: a click on a nav link whose href target exists sets activeSection to
\* the target id in the link's own click handler and leaves the mobile menu
\* closed; a click on a link whose target does not exist changes neither
\* activeSection nor isMobileMenuOpen in that handler.
C2_ClickSetsActive ==
  [][ \A l \in DesktopLinks \cup MobileLinks :
        NavClick(l) =>
          IF TargetExists(l)
            THEN /\ activeSection' = Substring1(Href(l))
                 /\ ~isMobileMenuOpen'
            ELSE /\ activeSection' = activeSection
                 /\ isMobileMenuOpen' = isMobileMenuOpen ]_vars

\* the handler of a mobile link has just run: experience is active, the menu
\* is closed and the click is on its way to the document
C2_Witness ==
  /\ bubbling = "menu"
  /\ activeSection = <<"experience">>
  /\ ~isMobileMenuOpen /\ menuHidden
  /\ lastScroll.top = 100

\* the target of the last intersecting entry of a batch, or cur when none is
LastIntersecting(batch, cur) ==
  LET hits == {i \in 1..Len(batch) : batch[i].isIntersecting} IN
    IF hits = {} THEN cur
    ELSE batch[CHOOSE i \in hits : \A j \in hits : j <= i].target

\* C3: after the scrollspy callback has processed a batch, activeSection is
\* the id of the last intersecting entry of the batch, and is unchanged when
\* no entry intersects; across batches and clicks, activeSection only moves
\* to what the event just processed activates: the target of a click, or
\* the section of an intersecting entry (a step that changes activeSection
\* is the step of a click or of a callback ending on that section).
C3_LastIntersectingWins ==
  /\ [](pc = "ready" =>
          \A b \in Batches :
            ScrollspyCallback(b, [activeSection |-> activeSection,
                                  activeLinks |-> activeLinks]).activeSection
              = LastIntersecting(b, activeSection))
  /\ [][ activeSection' # activeSection =>
           \/ \E l \in DesktopLinks \cup MobileLinks :
                NavClick(l) /\ activeSection' = Substring1(Href(l))
           \/ \E t \in Sections :
                /\ ScrollspyBatch(<<[target |-> t, isIntersecting |-> TRUE]>>)
                /\ activeSection' = t ]_vars

\* contact has no nav link: only an intersecting scrollspy entry activates it
C3_Witness ==
  activeSection = <<"contact">> /\ activeLinks = {}

\* the events C4 names as leaving activeSection alone
NonActivatingStep ==
  \/ \E h \in LocationHashes : HashChange(h)
  \/ HashTimerFire
  \/ \E p \in ScrollPositions : Scroll(p)
  \/ ScrollEventDispatch
  \/ BackToTopClick
  \/ ContactClick
  \/ MenuButtonClick
  \/ DocumentClick
  \/ OutsideClick
  \/ EscapeKey

\* C4: activeSection is changed only by a click on a nav link whose target
\* exists and by an intersecting scrollspy entry; the initial-hash timeout,
\* hashchange events, raw scroll events, the back-to-top and contact
\* buttons, menu toggling, outside clicks and Escape leave it unchanged.
C4_OnlyClickAndScrollspy ==
  [][ /\ NonActivatingStep => activeSection' = activeSection
      /\ activeSection' # activeSection =>
           \/ \E l \in DesktopLinks \cup MobileLinks :
                NavClick(l) /\ TargetExists(l)
           \/ \E t \in Sections :
                ScrollspyBatch(<<[target |-> t, isIntersecting |-> TRUE]>>) ]_vars

\* back-to-top (the only request for top 0) has scrolled away from the
\* section that stays active
C4_Witness ==
  /\ lastScroll.top = 0 /\ lastScroll.behavior # "none"
  /\ activeSection = <<"experience">>

\* the links whose href is '#' + id
LinksTo(pg, id) == {l \in NavLinks(pg) : Href(l) = HashOf(id)}

\* C5: after every change of activeSection, in any sequence of events, the
\* links carrying 'active' are exactly the links whose href is '#' +
\* activeSection, and the highlighting changes in no other way, so no link
\* of another section stays highlighted: all highlighted links name the one
\* active section.
C5_ActiveLinksMatch ==
  [][ (activeSection' # activeSection \/ activeLinks' # activeLinks) =>
        /\ activeLinks' = LinksTo(page, activeSection')
        /\ \A l \in activeLinks' : Href(l) = HashOf(activeSection') ]_vars

\* experience became active while the about link was highlighted
C5_Witness ==
  /\ activeSection = <<"experience">>
  /\ activeLinks = {"d_experience", "m_experience"}

\* C6: in every reachable state activeSection is the id of a section; no
\* click and no scrollspy event sets it to anything else.
C6_ActiveIsSection == activeSection \in Sections

\* C7: the mobile menu is a boolean toggle. A click on the menu button flips
\* isMobileMenuOpen and the document listener reached by the same click does
\* not undo it; an outside click or Escape closes an open menu and leaves a
\* closed one closed. In every state aria-expanded is 'true' exactly when
\* isMobileMenuOpen holds and the menu carries 'hidden' exactly when it does
\* not.
C7_MenuToggle ==
  /\ [][ /\ MenuButtonClick => isMobileMenuOpen' = ~isMobileMenuOpen
         /\ (DocumentClick /\ bubbling = "button")
              => isMobileMenuOpen' = isMobileMenuOpen
         /\ (OutsideClick \/ EscapeKey) => ~isMobileMenuOpen' ]_vars
  /\ []( /\ (ariaExpanded = "true") <=> isMobileMenuOpen
         /\ menuHidden <=> ~isMobileMenuOpen )

\* the menu is open after the button click has gone through the document
C7_Witness ==
  /\ isMobileMenuOpen /\ ariaExpanded = "true" /\ ~menuHidden
  /\ bubbling = NoEvent

----------------------------------------------------------------------------
(* Animation trigger *)

\* C8: the transition hidden -> visible of a fade-in element is one-way and
\* terminal. An element the fade observer reports as intersecting is visible
\* after the callback, and no step (a report of not intersecting, a repeated
\* report, observing it again, rendering again, a scroll, a click, a change
\* of the motion preference) takes 'visible' away from an element.
C8_VisibleIsTerminal ==
  /\ [][visible \subseteq visible']_vars
  /\ [](fadeObserver =>
          \A i \in SUBSET (observed \cap fadeEls) :
            \A o \in SUBSET (observed \ i) :
              (visible \cup i) \subseteq FadeCallback(visible, i, o))

\* the observer is at work: some observed element is visible, another is not
C8_Witness ==
  /\ fadeObserver
  /\ \E e \in observed : e \in visible
  /\ \E e \in observed : e \notin visible

\* C9: when reduced motion is preferred as the deferred animation setup
\* runs, every fade-in element of the page is visible after it, no fade
\* observer is created and nothing is observed (before the setup there is
\* no observer either, and only a setup in normal motion creates one); and
\* every programmatic scroll requested while reduced motion is preferred has
\* behaviour 'auto' and moves the viewport within the call.
C9_ReducedMotion ==
  /\ [][ /\ (DeferredSetup /\ reducedMotion) =>
              /\ fadeEls \subseteq visible'
              /\ ~fadeObserver' /\ observed' = {}
         /\ (fadeObserver' # fadeObserver \/ observed' # observed) =>
              DeferredSetup /\ ~reducedMotion
         /\ (lastScroll' # lastScroll /\ reducedMotion) =>
              /\ lastScroll'.behavior = "auto"
              /\ scrollY' = Clamp(lastScroll'.top) ]_vars
  /\ [](fadeTimer => ~fadeObserver /\ observed = {})

\* reduced motion: the setup has run, the static and the rendered elements
\* are visible with no observer, and the last scroll was an instant one
C9_Witness ==
  /\ reducedMotion /\ pc = "ready" /\ ~fadeTimer
  /\ Cardinality(fadeEls) >= 2 /\ fadeEls \subseteq visible
  /\ ~fadeObserver /\ observed = {}
  /\ lastScroll.behavior = "auto" /\ lastScroll.top = 420 /\ scrollY = 420

----------------------------------------------------------------------------
(* Chrome effects *)

ScrollEventStep == (\E p \in ScrollPositions : Scroll(p)) \/ ScrollEventDispatch

\* both controls exist and neither debounce timeout is pending
NoTimerPending == page.header /\ page.backToTop /\ ~bttTimer /\ ~hdrTimer

\* C10 as stated: the header's 'scrolled' and the back-to-top control's
\* 'visible' agree whenever no debounce timer is pending.
C10_AgreeWhenNoTimerPending ==
  NoTimerPending => (headerScrolled <=> bttVisible)

\* C10, amended: 'scrolled' and 'visible' are recomputed only by the
\* debounced handlers. A scroll event recomputes neither and (re)starts both
\* timeouts; a timeout ends only by running its handler, once, which sets
\* its class iff the scroll position is greater than SCROLL_THRESHOLD; and
\* the two agree whenever no debounce timer is pending and no scroll event
\* of an instant programmatic scroll is still to be dispatched.
C10_Debounced ==
  /\ [][ /\ headerScrolled' # headerScrolled => HeaderTimerFire
         /\ bttVisible' # bttVisible => BackToTopTimerFire
         /\ ScrollEventStep =>
              /\ headerScrolled' = headerScrolled /\ bttVisible' = bttVisible
              /\ pc = "ready" => /\ hdrTimer' = page.header
                                 /\ bttTimer' = page.backToTop
         /\ (hdrTimer /\ ~hdrTimer') => HeaderTimerFire
         /\ (bttTimer /\ ~bttTimer') => BackToTopTimerFire
         /\ HeaderTimerFire =>
              /\ ~hdrTimer'
              /\ headerScrolled' <=> (scrollY' > SCROLL_THRESHOLD)
         /\ BackToTopTimerFire =>
              /\ ~bttTimer'
              /\ bttVisible' <=> (scrollY' > SCROLL_THRESHOLD) ]_vars
  /\ []((NoTimerPending /\ ~scrollEventPending)
          => (headerScrolled <=> bttVisible))

\* both handlers have run past the threshold and nothing is pending
C10_Witness ==
  /\ NoTimerPending /\ ~scrollEventPending
  /\ headerScrolled /\ bttVisible /\ scrollY = 420

----------------------------------------------------------------------------
(* Hash routing *)

\* the fragment names an element of the document
NamesElement(hash) == hash # <<>> /\ Substring1(hash) \in ElementIds(page)

\* the scroll position requested for a target: its top minus the header
OffsetRule(id) == OffsetTop(id) - HEADER_OFFSET

\* init's step from the settled load to the end of the wiring, with the
\* given fragment in the URL
InitWires(hash) ==
  \/ \E k \in {"network_error", "not_ok"} : FetchSettles(k, hash)
  \/ \E o \in LoadOutcomes : JsonSettles(o, hash)

\* C11: init itself issues no scroll: for a fragment naming an existing
\* element it leaves one timeout pending for that element, for any other
\* fragment none. The timeout is the only thing that ends the pending state,
\* and when it fires it issues one scroll to offsetTop - HEADER_OFFSET of
\* that element. A hashchange with a fragment naming an existing element
\* issues a scroll to offsetTop - HEADER_OFFSET of it, which is also what a
\* click on a nav link requests for its target; with a fragment naming no
\* element it issues no scroll.
C11_HashRouting ==
  [][ /\ \A h \in LocationHashes :
           /\ InitWires(h) =>
                /\ lastScroll' = lastScroll /\ scrollY' = scrollY
                /\ hashTimer' = IF NamesElement(h) THEN Substring1(h)
                                                   ELSE NoTarget
           /\ HashChange(h) =>
                IF NamesElement(h)
                  THEN /\ lastScroll'.by = "hashchange"
                       /\ lastScroll'.top = OffsetRule(Substring1(h))
                  ELSE lastScroll' = lastScroll /\ scrollY' = scrollY
      /\ HashTimerFire =>
           /\ hashTimer \in ElementIds(page)
           /\ lastScroll'.by = "initial-hash"
           /\ lastScroll'.top = OffsetRule(hashTimer)
           /\ hashTimer' = NoTarget
      /\ \A l \in DesktopLinks \cup MobileLinks :
           (NavClick(l) /\ TargetExists(l))
              => lastScroll'.top = OffsetRule(Substring1(Href(l)))
      /\ hashTimer' # hashTimer =>
           \/ hashTimer = NoTarget /\ pc # "ready" /\ pc' = "ready"
           \/ HashTimerFire
      /\ lastScroll'.by = "initial-hash" /\ lastScroll' # lastScroll
           => HashTimerFire ]_vars

\* the initial-hash timeout has fired: the page started with #experience
\* and the one scroll of the timeout went to 180 - 80
C11_Witness ==
  /\ pc = "ready" /\ hashTimer = NoTarget
  /\ lastScroll.by = "initial-hash" /\ lastScroll.top = 100

----------------------------------------------------------------------------
(* Bootstrap *)

\* nothing a wired handler, a timeout of init or the fade observer does has
\* happened
NothingWired ==
  /\ lastScroll = NoScroll /\ ~isMobileMenuOpen
  /\ ~bttTimer /\ ~hdrTimer /\ ~bttVisible /\ ~headerScrolled
  /\ hashTimer = NoTarget /\ ~fadeTimer
  /\ ~fadeObserver /\ observed = {} /\ visible = {}

\* the phases of init in order: until the load settles isLoading is true,
\* portfolioData is null, no mount point is rendered and nothing is wired;
\* the step that ends the load clears isLoading, renders the loaded value
\* and only then leaves the handlers wired and the two timeouts pending;
\* the fade observer appears only with the deferred setup, after the wiring
C12_PhaseOrder ==
  /\ [](pc \in {"idle", "fetch", "json"} =>
          /\ isLoading /\ portfolioData = Null
          /\ mounts = EmptyMounts
          /\ NothingWired)
  /\ [](pc = "ready" => ~isLoading)
  /\ [][ /\ (pc # "ready" /\ pc' = "ready") =>
              /\ mounts' = RenderPass(mounts, portfolioData', nextId)
              /\ fadeTimer' /\ ~fadeObserver' /\ observed' = {}
         /\ (fadeObserver' /\ ~fadeObserver) =>
              pc = "ready" /\ fadeTimer /\ DeferredSetup ]_vars

\* C12: the bootstrap runs its phases in the fixed order, and whenever the
\* fetch has settled, isLoading eventually is false with portfolioData a
\* non-null document.
C12_BootstrapOrder ==
  /\ C12_PhaseOrder
  /\ (pc \in {"json", "ready"}) ~> (~isLoading /\ portfolioData # Null)

----------------------------------------------------------------------------
(* View renderers *)

\* the four renderers that build one card or timeline item per record
CardLists == {"experience", "education", "projects", "certifications"}

\* the fields the data model gives every record of a list
SchemaFields(f) ==
  CASE f = "experience"     -> {"role", "company", "start", "end",
                                "highlights", "stack"}
    [] f = "education"      -> {"degree", "school", "start", "end"}
    [] f = "projects"       -> {"name", "description", "stack", "links"}
    [] f = "certifications" -> {"name", "issuer", "year"}

\* the slice of the document a list renderer gets is well-formed
WellFormedList(d, f) ==
  /\ Has(d, f)
  /\ \A k \in 1..Len(d[f]) : SchemaFields(f) \subseteq DOMAIN d[f][k]

\* the heading of a record and the test id prefix of its heading
HeadingOf(f, r) ==
  CASE f = "experience"     -> r.role
    [] f = "education"      -> r.degree
    [] f = "projects"       -> r.name
    [] f = "certifications" -> r.name

HeadingId(f) ==
  CASE f = "experience"     -> "text-role"
    [] f = "education"      -> "text-degree"
    [] f = "projects"       -> "text-project-title"
    [] f = "certifications" -> "text-cert-name"

\* the nested list of a record and the test id prefix of its entries
NestedOf(f, r) ==
  CASE f = "experience"     -> r.highlights
    [] f = "education"      -> IF Has(r, "notes") THEN r.notes ELSE <<>>
    [] f = "projects"       -> r.stack
    [] f = "certifications" -> <<>>

NestedId(f) ==
  CASE f = "experience"     -> "text-highlight"
    [] f = "education"      -> "text-coursework"
    [] f = "projects"       -> "badge-project"
    [] f = "certifications" -> "none"

\* entries carry the texts of `texts` in order, with ids built from the
\* index of the record and their own position
NestedMatch(entries, texts, field, index) ==
  /\ Len(entries) = Len(texts)
  /\ \A j \in 1..Len(texts) :
       /\ entries[j].testid = NestedTestId(field, index, j - 1)
       /\ entries[j].text = texts[j]

\* mount point f of m holds one item per record of d[f], in input order,
\* with ids built from the indices
Populated(m, d, f) ==
  /\ Len(m[f]) = Len(d[f])
  /\ \A k \in 1..Len(d[f]) :
       /\ m[f][k].title.testid = TestId(HeadingId(f), k - 1)
       /\ m[f][k].title.text = HeadingOf(f, d[f][k])
       /\ NestedMatch(m[f][k].nested, NestedOf(f, d[f][k]), NestedId(f), k - 1)
       /\ f = "experience" =>
            NestedMatch(m[f][k].badges, d[f][k].stack, "badge", k - 1)

\* the hobbies mount point holds one wrapper with one item per hobby
HobbiesPopulated(m, d) ==
  /\ Len(m.hobbies) = 1
  /\ Len(m.hobbies[1].nested) = Len(d.hobbies)
  /\ \A j \in 1..Len(d.hobbies) :
       /\ m.hobbies[1].nested[j].testid = TestId("text-hobby", j - 1)
       /\ m.hobbies[1].nested[j].text = d.hobbies[j]

\* C13: in a render pass, every renderer whose own slice of the document is
\* well-formed populates its mount point from that slice, whatever another
\* renderer of the same pass does with a slice that makes it throw.
C13_RenderersIsolated ==
  [][ \A d \in RenderDocuments :
        ReRender(d) =>
          /\ \A f \in CardLists :
               WellFormedList(d, f) => Populated(mounts', d, f)
          /\ Has(d, "hobbies") => HobbiesPopulated(mounts', d) ]_vars

\* C14: for every valid document, rendered on the page in any reachable
\* state (fresh, or after any renders of any documents), each list renderer
\* leaves its mount point with exactly one item per record, in input order,
\* the item at position i carrying ids built from i and each nested
\* highlight, badge or coursework entry at position j ids built from i and
\* j: items of earlier renders are replaced, never added to.
C14_ListRenderers ==
  \A d \in ValidDocuments :
     LET m == RenderPass(mounts, d, nextId) IN
       /\ \A f \in CardLists : Populated(m, d, f)
       /\ HobbiesPopulated(m, d)

\* a page rendered more than once: the job's item is a fresh element, alone
\* in its mount point, with index 0 and its two highlights
C14_Witness ==
  /\ Len(mounts.experience) = 1
  /\ mounts.experience[1].el >= 3
  /\ mounts.experience[1].title.testid = TestId("text-role", 0)
  /\ Len(mounts.experience[1].nested) = 2

\* the render pass of d gets as far as the contact renderer: the hero and
\* the list renderers before it find what they read
ReachesContact(d) ==
  /\ Has(d, "about") /\ Has(d.about, "name")
  /\ \A f \in CardLists : WellFormedList(d, f)
  /\ Has(d, "hobbies")

\* a URL without its leading 'https://', otherwise unchanged
StripLeading(url) ==
  IF url # <<>> /\ Head(url) = "https://" THEN Tail(url) ELSE url

\* C15: whatever the about object of the document holds, a render pass
\* that gets to the contact renderer leaves exactly three entries, Email,
\* LinkedIn, GitHub in this order; the email is shown as it is and each URL
\* without its leading 'https://', otherwise unchanged.
C15_ContactMethods ==
  [][ \A d \in RenderDocuments :
        (ReRender(d) /\ ReachesContact(d)) =>
          LET c == mounts'.contact
              a == d.about
          IN /\ Len(c) = 3
             /\ c[1].title = "Email"
             /\ c[2].title = "LinkedIn"
             /\ c[3].title = "GitHub"
             /\ Has(a, "email") => c[1].value = a.email
             /\ (Has(a, "links") /\ Has(a.links, "linkedin")) =>
                  c[2].value = StripLeading(a.links.linkedin)
             /\ (Has(a, "links") /\ Has(a.links, "github")) =>
                  c[3].value = StripLeading(a.links.github) ]_vars

----------------------------------------------------------------------------
(* Icon resolver *)

\* the ordered rules as the icon resolver is specified: keyword set -> icon
ProjectRules ==
  << [keywords |-> {<<"test">>, <<"automation">>}, icon |-> "test"],
     [keywords |-> {<<"infrastructure">>, <<"terraform">>, <<"docker">>},
      icon |-> "infrastructure"],
     [keywords |-> {<<"security">>, <<"soc">>, <<"compliance">>},
      icon |-> "security"] >>

CertificationRules ==
  << [keywords |-> {<<"security">>, <<"cyber", "security">>},
      icon |-> "security"],
     [keywords |-> {<<"azure">>, <<"cloud">>}, icon |-> "cloud"],
     [keywords |-> {<<"isc2">>, <<"fortinet">>}, icon |-> "lock"],
     [keywords |-> {<<"sql">>, <<"database">>}, icon |-> "database"],
     [keywords |-> {<<"deploy">>, <<"configure">>}, icon |-> "server"] >>

\* the icon of the earliest rule with a keyword that occurs in the name,
\* whatever the case of the name; "default" when no rule has one
FirstMatch(rules, name) ==
  LET hits == {k \in 1..Len(rules) :
                 \E kw \in rules[k].keywords :
                    includes(toLowerCase(name), kw)}
  IN IF hits = {} THEN "default" ELSE rules[Min(hits)].icon

\* C16: the icon of every rendered project and certification is the one
\* the ordered rules give its name: the icon of the earliest rule one of
\* whose keywords occurs in the name in any case, the default icon when
\* none does. The icon depends on the name only, so equal names have equal
\* icons.
C16_IconResolution ==
  /\ \A k \in 1..Len(mounts.projects) :
       mounts.projects[k].icon
         = ProjectIconMap[FirstMatch(ProjectRules,
                                     mounts.projects[k].title.text)]
  /\ \A k \in 1..Len(mounts.certifications) :
       mounts.certifications[k].icon
         = CertificationIconMap[FirstMatch(CertificationRules,
                                           mounts.certifications[k].title.text)]

\* a project named with keywords of two rules, the later rule's first: it
\* carries the icon of the earlier rule
C16_Witness ==
  /\ Len(mounts.projects) = 1
  /\ mounts.projects[1].title.text = <<"TERRAFORM", "Test">>
  /\ mounts.projects[1].icon = ProjectIconMap.test

----------------------------------------------------------------------------
(* Visual variants *)

\* the items of mount point f alternate primary, secondary from index 0
VariantByIndex(f) ==
  \A k \in 1..Len(mounts[f]) :
     mounts[f][k].variant = IF (k - 1) % 2 = 0 THEN "primary" ELSE "secondary"

\* C17: in the experience, education, projects and certifications mount
\* points the variant of the item at index i is 'primary' when i is even
\* and 'secondary' when i is odd, whatever the record holds.
C17_VariantByIndex == \A f \in CardLists : VariantByIndex(f)

----------------------------------------------------------------------------
(* Hero *)

Whitespace == {" ", "\t"}

\* the tokens of a name: its maximal runs of chunks that are not whitespace
RECURSIVE TokensFrom(_, _)
TokensFrom(s, cur) ==
  LET done == IF cur = <<>> THEN <<>> ELSE <<cur>> IN
    IF s = <<>> THEN done
    ELSE IF Head(s) \in Whitespace
      THEN done \o TokensFrom(Tail(s), <<>>)
      ELSE TokensFrom(Tail(s), cur \o <<Head(s)>>)

Tokens(s) == TokensFrom(s, <<>>)

\* C18: once the hero is rendered for a name that is not blank, the surname
\* element shows the last whitespace-separated token of the name and the
\* name element the earlier tokens joined by single spaces (nothing for a
\* name of one token). The footer element shows the name as given.
C18_NameSplit ==
  LET t == Tokens(mounts.hero.footerName) IN
    t # <<>> =>
      /\ mounts.hero.surname = t[Len(t)]
      /\ mounts.hero.name = join(SubSeq(t, 1, Len(t) - 1))

----------------------------------------------------------------------------
(* Fade-in elements after rendering again *)

\* C19: once the deferred setup has run in normal motion (the fade observer
\* exists), every fade-in element of the page is visible or observed, also
\* after renderAllContent has been called again.
C19_FadeElsObserved ==
  (fadeObserver /\ ~fadeTimer) => fadeEls \subseteq (visible \cup observed)

----------------------------------------------------------------------------
(* Competing scroll requests *)

\* C20: a scroll request wins only by being the latest in event order; the
\* initial-hash timeout of init does not fire after a nav-link click has
\* issued its scroll, moving the page to the hash target while
\* activeSection still names the clicked section.
C20_ClickNotOverridden ==
  [][ HashTimerFire =>
        ~ /\ lastScroll.by = "click"
          /\ lastScroll.top = OffsetRule(activeSection)
          /\ lastScroll'.top # lastScroll.top ]_vars

====
